---- MODULE Spec2Model ----
(***************************************************************************)
(* Model of the tantivy storage pieces described in spec.md:               *)
(*   - termdict/sstable_termdict/merger.rs : TermMerger (k-way merge)      *)
(*   - fastfield/gcd.rs : find_gcd, compute_gcd, GCDFastFieldCodec         *)
(*   - query/query_document_tree.rs : QueryDocumentTree                    *)
(* The specifications MergerSpec, AnyMergerSpec, ItemSpec, GcdSpec,        *)
(* CodecSpec and TreeSpec share the variables.  Each leaves the other      *)
(* components' variables untouched.                                        *)
(***************************************************************************)
EXTENDS Integers, Sequences, FiniteSets, TLC

VARIABLES
    streams,            \* merger input: Vec<TermStreamer>, as given to TermMerger::new
    heap,               \* TermMerger.heap : BinaryHeap<HeapItem>
    current_streamers,  \* TermMerger.current_streamers : Vec<HeapItem>
    ret,                \* result of the last TermMerger::advance() ("none" before any call)
    keys_out,           \* key() observed after every advance() that returned true
    numbers,            \* find_gcd input sequence
    gcd_result,         \* find_gcd output ("pending" before the call)
    vals,               \* original column values handed to the encoder
    footer_in,          \* (min_value, gcd) handed to write_gcd_header
    body_in,            \* body bytes written before the footer
    bytes,              \* buffer handed to open_from_bytes
    opened,             \* outcome of open_from_bytes
    got,                \* last values read through the opened codec
    groups_out,         \* current_segment_ords_and_term_infos() after every true advance()
    item_pair,          \* two HeapItems handed to == and cmp
    item_cmp,           \* what == and cmp returned for item_pair
    tree,               \* a QueryDocumentTree
    field_terms,        \* outcome of to_field_terms on an empty map
    statistics_provider \* the Bm25StatisticsProvider: the score it yields for each Term

mergerVars == <<streams, heap, current_streamers, ret, keys_out, groups_out>>
gcdVars    == <<numbers, gcd_result>>
codecVars  == <<vals, footer_in, body_in, bytes, opened, got>>
itemVars   == <<item_pair, item_cmp>>
treeVars   == <<tree, field_terms, statistics_provider>>
vars       == <<streams, heap, current_streamers, ret, keys_out,
                numbers, gcd_result,
                vals, footer_in, body_in, bytes, opened, got,
                groups_out, item_pair, item_cmp, tree, field_terms,
                statistics_provider>>

----------------------------------------------------------------------------
(* Bounds *)

MaxStreams == 3
MaxStreamLen == 2
MaxNumbers == 3
MaxGcdVal == 16
MaxDocs == 2
MaxColVal == 6
MaxBodyLen == 2
MaxBodyByte == 2
MaxAnyStreams == 2
MaxAnyStreamLen == 3
MaxChildren == 2
MaxScore == 2

----------------------------------------------------------------------------
(* Generic helpers *)

Range(s) == {s[i] : i \in 1..Len(s)}

SeqsUpTo(S, n) == UNION {[1..k -> S] : k \in 0..n}

----------------------------------------------------------------------------
(* Ordering of byte strings and of (key, segment_ord) pairs, as Rust's     *)
(* Ord on &[u8], usize and tuples.                                         *)

\* a < b in byte-lexicographic order (a proper prefix is smaller)
SliceLess(a, b) ==
    \E i \in 1..(Len(a) + 1) :
        /\ \A j \in 1..(i - 1) : j <= Len(b) /\ a[j] = b[j]
        /\ i <= Len(b)
        /\ (i <= Len(a) => a[i] < b[i])

SliceCmp(a, b) ==
    IF a = b THEN "Equal" ELSE IF SliceLess(a, b) THEN "Less" ELSE "Greater"

UsizeCmp(a, b) ==
    IF a = b THEN "Equal" ELSE IF a < b THEN "Less" ELSE "Greater"

\* a plausible slip: ties among equal keys broken by the larger ordinal first
TupleCmpOrdReversed(k1, o1, k2, o2) ==
    IF SliceCmp(k1, k2) # "Equal" THEN SliceCmp(k1, k2) ELSE UsizeCmp(o2, o1)

\* (k1, o1).cmp(&(k2, o2))
TupleCmp(k1, o1, k2, o2) ==
    IF SliceCmp(k1, k2) # "Equal" THEN SliceCmp(k1, k2) ELSE UsizeCmp(o1, o2)

----------------------------------------------------------------------------
(* TermStreamer: a forward-only cursor over one segment's sorted term      *)
(* dictionary.  entries is the sequence of <<key, term_info>>; pos = 0 is  *)
(* the state before the first advance().                                   *)

Keys == {<<97>>, <<97, 98>>, <<98>>, <<99>>}

\* the opaque posting-location descriptor of the i-th entry of segment ord
TermInfoOf(ord, i) == <<ord, i>>

StreamerAdvanceOk(st) == st.pos < Len(st.entries)

StreamerAdvance(st) == [st EXCEPT !.pos = st.pos + 1]

StreamerKey(st) == st.entries[st.pos][1]

StreamerValue(st) == st.entries[st.pos][2]

----------------------------------------------------------------------------
(* HeapItem and its Ord                                                    *)

HeapItem(st, ord) == [streamer |-> st, segment_ord |-> ord]

\* HeapItem::eq
HeapItemEq(self, other) == self.segment_ord = other.segment_ord

\* a plausible slip: the comparison not reversed (BinaryHeap pops the largest)
HeapItemCmpNotReversed(self, other) ==
    TupleCmp(StreamerKey(self.streamer), self.segment_ord,
             StreamerKey(other.streamer), other.segment_ord)

HeapItemCmp(self, other) ==
    TupleCmp(StreamerKey(other.streamer), other.segment_ord,
             StreamerKey(self.streamer), self.segment_ord)

\* BinaryHeap::peek / pop : the greatest item under Ord
HeapPeek(h) == CHOOSE x \in h : \A y \in h : HeapItemCmp(x, y) # "Less"

----------------------------------------------------------------------------
(* TermMerger                                                              *)

\* TermMerger::new
MergerNew(strs) ==
    [heap |-> {},
     current_streamers |->
        [i \in 1..Len(strs) |-> HeapItem([entries |-> strs[i], pos |-> 0], i - 1)]]

\* a plausible slip: an exhausted streamer is pushed back with its last entry
RECURSIVE AdvanceSegmentsKeepExhausted(_, _)
AdvanceSegmentsKeepExhausted(h, cur) ==
    IF cur = <<>> THEN h
    ELSE LET heap_item == Head(cur)
         IN  IF StreamerAdvanceOk(heap_item.streamer)
             THEN AdvanceSegmentsKeepExhausted(
                     h \cup {[heap_item EXCEPT !.streamer = StreamerAdvance(@)]},
                     Tail(cur))
             ELSE IF heap_item.streamer.pos >= 1
             THEN AdvanceSegmentsKeepExhausted(h \cup {heap_item}, Tail(cur))
             ELSE AdvanceSegmentsKeepExhausted(h, Tail(cur))

\* a plausible slip: the drain stops at the first exhausted streamer
RECURSIVE AdvanceSegmentsStopAtExhausted(_, _)
AdvanceSegmentsStopAtExhausted(h, cur) ==
    IF cur = <<>> THEN h
    ELSE LET heap_item == Head(cur)
         IN  IF StreamerAdvanceOk(heap_item.streamer)
             THEN AdvanceSegmentsStopAtExhausted(
                     h \cup {[heap_item EXCEPT !.streamer = StreamerAdvance(@)]},
                     Tail(cur))
             ELSE h

\* TermMerger::advance_segments : the heap after draining current_streamers
RECURSIVE AdvanceSegments(_, _)
AdvanceSegments(h, cur) ==
    IF cur = <<>> THEN h
    ELSE LET heap_item == Head(cur)
         IN  IF StreamerAdvanceOk(heap_item.streamer)
             THEN AdvanceSegments(
                     h \cup {[heap_item EXCEPT !.streamer = StreamerAdvance(@)]},
                     Tail(cur))
             ELSE AdvanceSegments(h, Tail(cur))

\* a plausible slip: the loop body runs at most once (`if let` for `while let`)
CollectSameKeyOnce(h, cur) ==
    IF h = {} THEN [heap |-> h, current_streamers |-> cur]
    ELSE LET next_streamer == HeapPeek(h)
         IN  IF StreamerKey(cur[1].streamer) # StreamerKey(next_streamer.streamer)
             THEN [heap |-> h, current_streamers |-> cur]
             ELSE [heap |-> h \ {next_streamer},
                   current_streamers |-> Append(cur, next_streamer)]

\* the `while let Some(next_streamer) = self.heap.peek()` loop of advance()
RECURSIVE CollectSameKey(_, _)
CollectSameKey(h, cur) ==
    IF h = {} THEN [heap |-> h, current_streamers |-> cur]
    ELSE LET next_streamer == HeapPeek(h)
         IN  IF StreamerKey(cur[1].streamer) # StreamerKey(next_streamer.streamer)
             THEN [heap |-> h, current_streamers |-> cur]
             ELSE CollectSameKey(h \ {next_streamer}, Append(cur, next_streamer))

\* a plausible slip: the head is peeked, not popped, before it joins the group
MergerAdvancePeekHead(h0, cur0) ==
    LET h1 == AdvanceSegments(h0, cur0)
    IN  IF h1 = {}
        THEN [heap |-> h1, current_streamers |-> <<>>, result |-> FALSE]
        ELSE LET head == HeapPeek(h1)
                 m    == CollectSameKey(h1, <<head>>)
             IN  [heap |-> m.heap, current_streamers |-> m.current_streamers,
                  result |-> TRUE]

\* TermMerger::advance : the merger after the call, and the returned bool
MergerAdvance(h0, cur0) ==
    LET h1 == AdvanceSegments(h0, cur0)
    IN  IF h1 = {}
        THEN [heap |-> h1, current_streamers |-> <<>>, result |-> FALSE]
        ELSE LET head == HeapPeek(h1)
                 m    == CollectSameKey(h1 \ {head}, <<head>>)
             IN  [heap |-> m.heap, current_streamers |-> m.current_streamers,
                  result |-> TRUE]

\* the panics advance() can raise: the index `self.current_streamers[0]` in the
\* loop condition (out of bounds on an empty group) and `self.heap.pop().unwrap()`
\* (None on an empty heap)
RECURSIVE CollectPanics(_, _)
CollectPanics(h, cur) ==
    IF h = {} THEN FALSE
    ELSE IF Len(cur) = 0 THEN TRUE
    ELSE LET next_streamer == HeapPeek(h)
         IN  IF StreamerKey(cur[1].streamer) # StreamerKey(next_streamer.streamer)
             THEN FALSE
             ELSE IF h = {} THEN TRUE
             ELSE CollectPanics(h \ {next_streamer}, Append(cur, next_streamer))

AdvancePanics(h0, cur0) ==
    LET h1 == AdvanceSegments(h0, cur0)
    IN  IF h1 = {} THEN FALSE
        ELSE CollectPanics(h1 \ {HeapPeek(h1)}, <<HeapPeek(h1)>>)

\* TermMerger::key
MergerKey(cur) == StreamerKey(cur[1].streamer)

\* TermMerger::current_segment_ords_and_term_infos
CurrentSegmentOrdsAndTermInfos(cur) ==
    [i \in 1..Len(cur) |-> <<cur[i].segment_ord, StreamerValue(cur[i].streamer)>>]

----------------------------------------------------------------------------
(* Merger inputs: every stream strictly increasing and duplicate-free      *)

StrictlyIncreasing(ks) ==
    \A i \in 1..(Len(ks) - 1) : SliceLess(ks[i], ks[i + 1])

KeySeqs == {ks \in SeqsUpTo(Keys, MaxStreamLen) : StrictlyIncreasing(ks)}

\* the stream of segment ord with keys ks
MakeStream(ord, ks) == [i \in 1..Len(ks) |-> <<ks[i], TermInfoOf(ord, i)>>]

\* the list of streams whose i-th stream has the keys kss[i]
MakeStreams(kss) == [i \in 1..Len(kss) |-> MakeStream(i - 1, kss[i])]

MergerIdle ==
    /\ streams = <<>>
    /\ heap = {}
    /\ current_streamers = <<>>
    /\ ret = "none"
    /\ keys_out = <<>>
    /\ groups_out = <<>>

GcdIdle ==
    /\ numbers = <<>>
    /\ gcd_result = [tag |-> "pending"]

CodecIdle ==
    /\ vals = <<>>
    /\ footer_in = <<>>
    /\ body_in = <<>>
    /\ bytes = <<>>
    /\ opened = [status |-> "none"]
    /\ got = <<>>

ItemIdle ==
    /\ item_pair = <<>>
    /\ item_cmp = [done |-> FALSE]

TreeIdle ==
    /\ tree = [kind |-> "none"]
    /\ field_terms = [status |-> "none"]
    /\ statistics_provider = <<>>

MergerInit ==
    /\ \E n \in 0..MaxStreams :
          \E kss \in [1..n -> KeySeqs] : streams = MakeStreams(kss)
    /\ heap = MergerNew(streams).heap
    /\ current_streamers = MergerNew(streams).current_streamers
    /\ ret = "none"
    /\ keys_out = <<>>
    /\ groups_out = <<>>
    /\ GcdIdle
    /\ CodecIdle
    /\ ItemIdle
    /\ TreeIdle

\* one call of TermMerger::advance(), the caller reading key() on success
Advance ==
    LET m == MergerAdvance(heap, current_streamers)
    IN  /\ heap' = m.heap
        /\ current_streamers' = m.current_streamers
        /\ ret' = IF m.result THEN "true" ELSE "false"
        /\ keys_out' = IF m.result
                       THEN Append(keys_out, MergerKey(m.current_streamers))
                       ELSE keys_out
        /\ groups_out' = IF m.result
                         THEN Append(groups_out,
                                     CurrentSegmentOrdsAndTermInfos(m.current_streamers))
                         ELSE groups_out
        /\ UNCHANGED <<streams, gcdVars, codecVars, itemVars, treeVars>>

MergerNext == Advance

MergerSpec == MergerInit /\ [][MergerNext]_vars

----------------------------------------------------------------------------
(* Merger properties                                                       *)

\* all keys of all input streams
UnionKeys ==
    UNION {{streams[i][j][1] : j \in 1..Len(streams[i])} : i \in 1..Len(streams)}

\* the strictly increasing enumeration of a finite set of keys
SortedSeqOf(S) ==
    CHOOSE s \in [1..Cardinality(S) -> S] : StrictlyIncreasing(s)

\* segment ordinals whose input stream contains key k
ContainingOrds(k) ==
    {i - 1 : i \in {n \in 1..Len(streams) :
                       \E j \in 1..Len(streams[n]) : streams[n][j][1] = k}}

\* the term info that segment ord's input stream holds at key k
ValueAt(ord, k) ==
    LET str == streams[ord + 1]
    IN  str[CHOOSE j \in 1..Len(str) : str[j][1] = k][2]

\* C1: for sorted duplicate-free input streams, the keys read after each
\* advance() that returned true are strictly increasing (hence duplicate-free),
\* and once advance() returns false they are exactly the sorted union of all
\* input keys, so the number of true returns is the number of distinct keys.
C1_MergedKeysSortedUnion ==
    /\ StrictlyIncreasing(keys_out)
    /\ Range(keys_out) \subseteq UnionKeys
    /\ ret = "false" =>
          /\ keys_out = SortedSeqOf(UnionKeys)
          /\ Len(keys_out) = Cardinality(UnionKeys)

C1_Witness ==
    /\ ret = "false"
    /\ Len(streams) = 3
    /\ Len(keys_out) = 3
    /\ \E k \in UnionKeys : Cardinality(ContainingOrds(k)) >= 2

\* C2: after an advance() that returned true, current_segment_ords_and_term_infos()
\* yields one pair per segment whose stream contains the current key and no other
\* pair, in ascending segment-ordinal order, each with that segment's term info
\* at the key.
C2_GroupIsContainingSegments ==
    ret = "true" =>
        LET out == CurrentSegmentOrdsAndTermInfos(current_streamers)
            k   == MergerKey(current_streamers)
        IN  /\ {out[i][1] : i \in 1..Len(out)} = ContainingOrds(k)
            /\ \A i \in 1..(Len(out) - 1) : out[i][1] < out[i + 1][1]
            /\ \A i \in 1..Len(out) : out[i][2] = ValueAt(out[i][1], k)

\* a key held by segments 0 and 2 but not by segment 1
C2_Witness ==
    /\ ret = "true"
    /\ Len(streams) = 3
    /\ Len(keys_out) >= 2
    /\ ContainingOrds(MergerKey(current_streamers)) = {0, 2}
    /\ CurrentSegmentOrdsAndTermInfos(current_streamers)
         = <<(<<0, ValueAt(0, MergerKey(current_streamers))>>),
             (<<2, ValueAt(2, MergerKey(current_streamers))>>)>>

\* C3: after an advance() that returned true, every item of current_streamers has
\* the same key, every item left in the heap has a strictly greater key, and the
\* segment ordinals in current_streamers are pairwise different.
C3_MergeStateInvariant ==
    ret = "true" =>
        LET k == MergerKey(current_streamers)
        IN  /\ \A i \in 1..Len(current_streamers) :
                  StreamerKey(current_streamers[i].streamer) = k
            /\ \A x \in heap : SliceLess(k, StreamerKey(x.streamer))
            /\ \A i, j \in 1..Len(current_streamers) :
                  i # j => current_streamers[i].segment_ord
                             # current_streamers[j].segment_ord

C3_Witness ==
    /\ ret = "true"
    /\ Len(current_streamers) >= 2
    /\ heap # {}


\* C12: advance() returns false exactly when every input streamer is exhausted,
\* that is when every input key has already been yielded (on the first call for
\* an empty list or for empty streamers); when it returns false the heap and the
\* current group are empty, and after a false return every call returns false.
C12_FalseIffExhausted ==
    [][/\ (ret' = "false") <=> (Range(keys_out) = UnionKeys)
       /\ ret' = "false" => (heap' = {} /\ current_streamers' = <<>>)
       /\ ret = "false" => ret' = "false"]_vars

C12_Witness ==
    /\ ret = "false"
    /\ Len(streams) = 3
    /\ Len(keys_out) = 4
    /\ heap = {}
    /\ current_streamers = <<>>

\* segment ordinals of the items in the current group, in order
GroupOrds == [i \in 1..Len(current_streamers) |-> current_streamers[i].segment_ord]

\* segment ordinals of the input streamers
InputOrds == {i - 1 : i \in 1..Len(streams)}

\* the (segment ordinal, key, term info) entries of the input streams
InputEntries ==
    UNION {{<<i - 1, streams[i][j][1], streams[i][j][2]>> : j \in 1..Len(streams[i])}
           : i \in 1..Len(streams)}

\* positions (i, j) of the output: advance() number i, pair number j of its group
YieldPositions ==
    UNION {{<<i, j>> : j \in 1..Len(groups_out[i])} : i \in 1..Len(groups_out)}

\* the entry yielded at an output position, with the key() of that position
YieldedAt(p) ==
    <<groups_out[p[1]][p[2]][1], keys_out[p[1]], groups_out[p[1]][p[2]][2]>>

\* C15: in every state each input streamer is in exactly one place: once in the
\* current group, once in the heap, or dropped with all its entries yielded;
\* every yielded (segment ordinal, key, term info) is an input entry yielded at
\* no other position, and once advance() has returned false every input entry
\* has been yielded exactly once, under its own key.
C15_EntryConservation ==
    /\ \A i, j \in 1..Len(GroupOrds) : i # j => GroupOrds[i] # GroupOrds[j]
    /\ \A x, y \in heap : x # y => x.segment_ord # y.segment_ord
    /\ \A x \in heap : x.segment_ord \notin Range(GroupOrds)
    /\ \A x \in heap \cup Range(current_streamers) :
          /\ x.segment_ord \in InputOrds
          /\ x.streamer.entries = streams[x.segment_ord + 1]
    /\ \A o \in InputOrds :
          (o \notin Range(GroupOrds) /\ \A x \in heap : x.segment_ord # o) =>
             \A j \in 1..Len(streams[o + 1]) :
                \E p \in YieldPositions :
                   YieldedAt(p) = <<o, streams[o + 1][j][1], streams[o + 1][j][2]>>
    /\ \A p \in YieldPositions : YieldedAt(p) \in InputEntries
    /\ \A p, q \in YieldPositions : YieldedAt(p) = YieldedAt(q) => p = q
    /\ ret = "false" =>
          \A e \in InputEntries :
             Cardinality({p \in YieldPositions : YieldedAt(p) = e}) = 1

C15_Witness ==
    /\ ret = "false"
    /\ Len(streams) = 3
    /\ Cardinality(InputEntries) = 6
    /\ Len(keys_out) = 3

----------------------------------------------------------------------------
(* The merger on arbitrary input streams: unsorted, with duplicate keys    *)

AnyKeys == {<<97>>, <<97, 98>>}

AnyMergerInit ==
    /\ \E n \in 0..MaxAnyStreams :
          \E kss \in [1..n -> SeqsUpTo(AnyKeys, MaxAnyStreamLen)] :
             streams = MakeStreams(kss)
    /\ heap = MergerNew(streams).heap
    /\ current_streamers = MergerNew(streams).current_streamers
    /\ ret = "none"
    /\ keys_out = <<>>
    /\ groups_out = <<>>
    /\ GcdIdle
    /\ CodecIdle
    /\ ItemIdle
    /\ TreeIdle

AnyMergerSpec == AnyMergerInit /\ [][MergerNext]_vars

RECURSIVE SumLen(_)
SumLen(ss) == IF ss = <<>> THEN 0 ELSE Len(Head(ss)) + SumLen(Tail(ss))

\* number of entries of all input streams
TotalEntries == SumLen(streams)

\* the input violates the caller contract: some stream is not strictly increasing
InputViolatesContract ==
    \E i \in 1..Len(streams) :
        ~StrictlyIncreasing([j \in 1..Len(streams[i]) |-> streams[i][j][1]])

\* every streamer the merger holds is positioned on one of its entries
HeldStreamersPositioned ==
    /\ \A x \in heap : x.streamer.pos \in 1..Len(x.streamer.entries)
    /\ ret # "none" =>
          \A i \in 1..Len(current_streamers) :
             current_streamers[i].streamer.pos
                \in 1..Len(current_streamers[i].streamer.entries)

C13_NoPanicAndBounded ==
    /\ ~AdvancePanics(heap, current_streamers)
    /\ ret = "true" => current_streamers # <<>>
    /\ HeldStreamersPositioned
    /\ Len(keys_out) <= SumLen(groups_out)
    /\ SumLen(groups_out) <= TotalEntries

\* C13: for any finite input streams, unsorted or with duplicate keys included,
\* no advance() call panics, and the merge terminates: every advance() that
\* returns true yields at least one input entry not yielded before, so it
\* returns true at most as many times as there are input entries and then
\* returns false.
C13_UnsortedInputTerminates ==
    /\ C13_NoPanicAndBounded
    /\ [][/\ C13_NoPanicAndBounded'
          /\ ret' = "true" => SumLen(groups_out') > SumLen(groups_out)
          /\ ret' = "false" => SumLen(groups_out) = TotalEntries]_vars

C13_Witness ==
    /\ InputViolatesContract
    /\ ret = "false"
    /\ Len(keys_out) >= 3
    /\ ~StrictlyIncreasing(keys_out)

----------------------------------------------------------------------------
(* HeapItem == and cmp on any two HeapItems (pub struct, pub fields)       *)

\* the HeapItem of segment ord over a stream with keys ks, positioned at p
PositionedItem(ord, ks, p) ==
    HeapItem([entries |-> MakeStream(ord, ks), pos |-> p], ord)

ItemInit ==
    /\ \E oa \in 0..(MaxStreams - 1), ob \in 0..(MaxStreams - 1) :
       \E ka \in KeySeqs \ {<<>>}, kb \in KeySeqs \ {<<>>} :
       \E pa \in 1..Len(ka), pb \in 1..Len(kb) :
          item_pair = <<PositionedItem(oa, ka, pa), PositionedItem(ob, kb, pb)>>
    /\ item_cmp = [done |-> FALSE]
    /\ MergerIdle
    /\ GcdIdle
    /\ CodecIdle
    /\ TreeIdle

\* item_pair[1] == item_pair[2] and item_pair[1].cmp(&item_pair[2])
CompareItems ==
    /\ ~item_cmp.done
    /\ item_cmp' = [done |-> TRUE,
                    eq   |-> HeapItemEq(item_pair[1], item_pair[2]),
                    cmp  |-> HeapItemCmp(item_pair[1], item_pair[2])]
    /\ UNCHANGED <<item_pair, mergerVars, gcdVars, codecVars, treeVars>>

ItemNext == CompareItems

ItemSpec == ItemInit /\ [][ItemNext]_vars

\* C11: two HeapItems are equal (==) exactly when cmp yields Equal, that is when
\* they have the same key and the same segment ordinal; of two items with the
\* same key the one with the smaller ordinal is the greater under cmp, so the
\* BinaryHeap extracts it first.
C11_EqAgreesWithCmp ==
    item_cmp.done =>
        LET a == item_pair[1]
            b == item_pair[2]
            same_key == StreamerKey(a.streamer) = StreamerKey(b.streamer)
        IN  /\ item_cmp.eq <=> (item_cmp.cmp = "Equal")
            /\ item_cmp.eq <=> (same_key /\ a.segment_ord = b.segment_ord)
            /\ (same_key /\ a.segment_ord < b.segment_ord)
                  => item_cmp.cmp = "Greater"

----------------------------------------------------------------------------
(* fastfield/gcd.rs : compute_gcd and find_gcd                             *)

None == [tag |-> "None"]

Some(v) == [tag |-> "Some", value |-> v]

\* numbers.flat_map(NonZeroU64::new) : the non-zero values, in order
NonZeroNumbers(s) == SelectSeq(s, LAMBDA v : v # 0)

\* DividerU64::divide_by(divisor).divide(n) : the exact quotient
DividerDivide(divisor, n) == n \div divisor

\* a plausible slip: a single Euclidean step instead of the loop
ComputeGcdOneStep(large, small) ==
    LET rem == large % small
    IN  IF rem # 0 THEN rem ELSE small

\* compute_gcd(large, small), both non-zero
RECURSIVE ComputeGcd(_, _)
ComputeGcd(large, small) ==
    LET rem == large % small
    IN  IF rem # 0 THEN ComputeGcd(small, rem) ELSE small

\* a plausible slip: `break` for `continue` when val is a multiple of gcd
RECURSIVE FindGcdLoopBreak(_, _)
FindGcdLoopBreak(gcd, rest) ==
    IF rest = <<>> THEN Some(gcd)
    ELSE LET val       == Head(rest)
             remainder == val - DividerDivide(gcd, val) * gcd
         IN  IF remainder = 0 THEN Some(gcd)
             ELSE LET new_gcd == ComputeGcd(val, gcd)
                  IN  IF new_gcd = 1 THEN Some(new_gcd)
                      ELSE FindGcdLoopBreak(new_gcd, Tail(rest))

\* the `for val in numbers` loop of find_gcd, gcd being the running value
RECURSIVE FindGcdLoop(_, _)
FindGcdLoop(gcd, rest) ==
    IF rest = <<>> THEN Some(gcd)
    ELSE LET val       == Head(rest)
             remainder == val - DividerDivide(gcd, val) * gcd
         IN  IF remainder = 0 THEN FindGcdLoop(gcd, Tail(rest))
             ELSE LET new_gcd == ComputeGcd(val, gcd)
                  IN  IF new_gcd = 1 THEN Some(new_gcd)
                      ELSE FindGcdLoop(new_gcd, Tail(rest))

\* a plausible slip: no non-zero value reported as the default divisor 1
FindGcdNoneAsOne(nums) ==
    LET nz == NonZeroNumbers(nums)
    IN  IF nz = <<>> THEN Some(1)
        ELSE IF Head(nz) = 1 THEN Some(Head(nz))
        ELSE FindGcdLoop(Head(nz), Tail(nz))

\* find_gcd(numbers)
FindGcd(nums) ==
    LET nz == NonZeroNumbers(nums)
    IN  IF nz = <<>> THEN None
        ELSE IF Head(nz) = 1 THEN Some(Head(nz))
        ELSE FindGcdLoop(Head(nz), Tail(nz))

GcdInit ==
    /\ \E n \in 0..MaxNumbers : numbers \in [1..n -> 0..MaxGcdVal]
    /\ gcd_result = [tag |-> "pending"]
    /\ MergerIdle
    /\ CodecIdle
    /\ ItemIdle
    /\ TreeIdle

\* one call of find_gcd over the input sequence
CallFindGcd ==
    /\ gcd_result.tag = "pending"
    /\ gcd_result' = FindGcd(numbers)
    /\ UNCHANGED <<numbers, mergerVars, codecVars, itemVars, treeVars>>

GcdNext == CallFindGcd

GcdSpec == GcdInit /\ [][GcdNext]_vars

----------------------------------------------------------------------------
(* find_gcd properties                                                     *)

NonZeroElems == {numbers[i] : i \in {j \in 1..Len(numbers) : numbers[j] # 0}}

DividesAll(g, S) == \A v \in S : v % g = 0

\* all rearrangements of the sequence s
PermutationsOf(s) ==
    {[i \in 1..Len(s) |-> s[p[i]]] :
        p \in {q \in [1..Len(s) -> 1..Len(s)] :
                 \A i, j \in 1..Len(s) : q[i] = q[j] => i = j}}

\* C4: when the input holds a non-zero value, find_gcd returns Some(g) where g
\* divides every non-zero element and no larger number does.
C4_FindGcdIsGreatestCommonDivisor ==
    (gcd_result.tag # "pending" /\ NonZeroElems # {}) =>
        /\ gcd_result.tag = "Some"
        /\ gcd_result.value >= 1
        /\ DividesAll(gcd_result.value, NonZeroElems)
        /\ \A g \in (gcd_result.value + 1)..MaxGcdVal : ~DividesAll(g, NonZeroElems)

\* a non-trivial divisor found after the running gcd had to shrink
C4_Witness ==
    /\ gcd_result = Some(3)
    /\ Len(numbers) = 3
    /\ numbers[1] > 3
    /\ numbers[2] % numbers[1] # 0
    /\ numbers[3] # 0

\* C7: find_gcd returns None exactly when the input holds no non-zero value, and
\* otherwise Some(g) with g >= 1.
C7_NoneIffNoNonZero ==
    gcd_result.tag # "pending" =>
        /\ (gcd_result.tag = "None") <=> (NonZeroElems = {})
        /\ gcd_result.tag = "Some" => gcd_result.value >= 1

C7_Witness ==
    /\ gcd_result.tag = "None"
    /\ Len(numbers) = 2

\* C8: find_gcd of a sequence equals find_gcd of the sequence with zeros removed
\* and find_gcd of every rearrangement of the sequence.
C8_ZeroSkippingOrderIndependent ==
    gcd_result.tag # "pending" =>
        /\ gcd_result = FindGcd(NonZeroNumbers(numbers))
        /\ \A p \in PermutationsOf(numbers) : FindGcd(p) = gcd_result

\* a zero mixed in, and an order in which the running gcd shrinks
C8_Witness ==
    /\ gcd_result = Some(2)
    /\ Len(numbers) = 3
    /\ numbers[1] = 0 /\ numbers[2] = 6 /\ numbers[3] = 4

----------------------------------------------------------------------------
(* fastfield/gcd.rs : GCDFastFieldCodec and write_gcd_header               *)

GCD_DEFAULT == 1

\* the footer is the last 16 bytes of the buffer
FooterLen == 16

\* width of a serialized u64
U64Len == 8

\* u64 as BinarySerializable: 8 bytes, least significant first
RECURSIVE LeBytes(_, _)
LeBytes(v, n) ==
    IF n = 0 THEN <<>> ELSE <<v % 256>> \o LeBytes(v \div 256, n - 1)

U64Serialize(v) == LeBytes(v, U64Len)

RECURSIVE U64Deserialize(_)
U64Deserialize(b) ==
    IF b = <<>> THEN 0 ELSE b[1] + 256 * U64Deserialize(Tail(b))

\* a plausible slip: the two fields written in the order of the parameters
WriteGcdHeaderMinFirst(min_value, gcd) ==
    U64Serialize(min_value) \o U64Serialize(gcd)

\* write_gcd_header(field_write, min_value, gcd) : the bytes appended
WriteGcdHeader(min_value, gcd) ==
    U64Serialize(gcd) \o U64Serialize(min_value)

(* The inner codec (FastFieldCodecReader capability).  Its body is a count *)
(* byte followed by one byte per stored value; opening fails when the      *)
(* count does not match the body length.                                   *)

InnerBody(quotients) == <<Len(quotients)>> \o quotients

InnerOpenOk(body) == Len(body) >= 1 /\ body[1] = Len(body) - 1

InnerReader(body) == [bytes |-> body]

InnerNumDocs(reader) == reader.bytes[1]

InnerGetU64(reader, doc) == reader.bytes[doc + 2]

InnerStored(reader) == {reader.bytes[i] : i \in 2..Len(reader.bytes)}

InnerMinValue(reader) ==
    CHOOSE m \in InnerStored(reader) : \A v \in InnerStored(reader) : m <= v

InnerMaxValue(reader) ==
    CHOOSE m \in InnerStored(reader) : \A v \in InnerStored(reader) : m >= v

\* `bytes.len() - 16` on usize: exact when it fits; otherwise an overflow panic
\* in a build with overflow checks, and a wrapped value close to usize::MAX
\* (larger than any buffer length) in a build without
FooterOffset(len, build) ==
    IF len >= FooterLen THEN [kind |-> "exact", offset |-> len - FooterLen]
    ELSE IF build = "debug" THEN [kind |-> "overflow_panic"]
    ELSE [kind |-> "wrapped"]

\* OwnedBytes::split(split_len): slicing panics when split_len exceeds the length
SplitPanics(off) == off.kind = "wrapped"

\* GCDFastFieldCodec::open_from_bytes
OpenFromBytes(buf, build) ==
    LET footer_offset == FooterOffset(Len(buf), build)
    IN  IF footer_offset.kind = "overflow_panic" \/ SplitPanics(footer_offset)
        THEN [status |-> "Panic"]
        ELSE LET body      == SubSeq(buf, 1, footer_offset.offset)
                 footer    == SubSeq(buf, footer_offset.offset + 1, Len(buf))
                 gcd       == U64Deserialize(SubSeq(footer, 1, U64Len))
                 min_value == U64Deserialize(SubSeq(footer, U64Len + 1, 2 * U64Len))
             IN  IF ~InnerOpenOk(body) THEN [status |-> "Err"]
                 ELSE [status |-> "Ok", gcd |-> gcd, min_value |-> min_value,
                       reader |-> InnerReader(body)]

\* a plausible slip: the offset added before the multiplication
CodecGetU64AddFirst(c, doc) == (InnerGetU64(c.reader, doc) + c.min_value) * c.gcd

\* GCDFastFieldCodec::get_u64
CodecGetU64(c, doc) ==
    LET data0 == InnerGetU64(c.reader, doc)
        data1 == data0 * c.gcd
        data2 == data1 + c.min_value
    IN  data2

\* a plausible slip: the offset added before the multiplication
CodecGetU64StepsAddFirst(c, doc) ==
    <<InnerGetU64(c.reader, doc) + c.min_value,
      (InnerGetU64(c.reader, doc) + c.min_value) * c.gcd>>

\* the values `data` takes in get_u64 after `data *= self.gcd` and after
\* `data += self.min_value`, as mathematical integers
CodecGetU64Steps(c, doc) ==
    <<InnerGetU64(c.reader, doc) * c.gcd,
      InnerGetU64(c.reader, doc) * c.gcd + c.min_value>>

\* the product and the sum computed by min_value() and by max_value()
CodecMinValueSteps(c) ==
    <<InnerMinValue(c.reader) * c.gcd, c.min_value + InnerMinValue(c.reader) * c.gcd>>

CodecMaxValueSteps(c) ==
    <<InnerMaxValue(c.reader) * c.gcd, c.min_value + InnerMaxValue(c.reader) * c.gcd>>

\* GCDFastFieldCodec::min_value
CodecMinValue(c) == c.min_value + InnerMinValue(c.reader) * c.gcd

\* a plausible slip: max_value() reading the inner minimum
CodecMaxValueFromMin(c) == c.min_value + InnerMinValue(c.reader) * c.gcd

\* GCDFastFieldCodec::max_value
CodecMaxValue(c) == c.min_value + InnerMaxValue(c.reader) * c.gcd

(* The encoder: factors the minimum and a common divisor out of the        *)
(* column, stores the quotients with the inner codec, appends the footer.  *)

SeqMin(s) == CHOOSE m \in Range(s) : \A v \in Range(s) : m <= v

SeqMax(s) == CHOOSE m \in Range(s) : \A v \in Range(s) : m >= v

GcdOrDefault(r) == IF r.tag = "Some" THEN r.value ELSE GCD_DEFAULT

\* the divisors the encoder may compute for a column: the gcd of the values
\* themselves or of the values less the minimum
EncoderGcds(column) ==
    {GcdOrDefault(FindGcd(column)),
     GcdOrDefault(FindGcd([i \in 1..Len(column) |-> column[i] - SeqMin(column)]))}

Quotients(column, min_value, gcd) ==
    [i \in 1..Len(column) |-> (column[i] - min_value) \div gcd]

Bodies == SeqsUpTo(0..MaxBodyByte, MaxBodyLen)

\* the largest value of the column's integer type: column values range over
\* the whole type, 0..U64Max
U64Max == MaxColVal

\* the file as written: the body, then the footer
WrittenFile ==
    IF footer_in = <<>> THEN <<>>
    ELSE body_in \o WriteGcdHeader(footer_in[1], footer_in[2])

CodecInit ==
    /\ \E n \in 0..MaxDocs : vals \in [1..n -> 0..MaxColVal]
    /\ footer_in = <<>>
    /\ body_in = <<>>
    /\ bytes = <<>>
    /\ opened = [status |-> "none"]
    /\ got = <<>>
    /\ MergerIdle
    /\ GcdIdle
    /\ ItemIdle
    /\ TreeIdle

\* a column is encoded: body by the inner codec, footer by write_gcd_header
Encode ==
    /\ vals # <<>>
    /\ footer_in = <<>>
    /\ \E gcd \in EncoderGcds(vals) :
          /\ footer_in' = <<SeqMin(vals), gcd>>
          /\ body_in' = InnerBody(Quotients(vals, SeqMin(vals), gcd))
    /\ UNCHANGED <<vals, bytes, opened, got, mergerVars, gcdVars, itemVars, treeVars>>

\* arbitrary body bytes followed by write_gcd_header(min_value, gcd)
WriteRaw ==
    /\ vals = <<>>
    /\ footer_in = <<>>
    /\ \E body \in Bodies, min_value \in 0..MaxColVal, gcd \in 0..MaxColVal :
          /\ footer_in' = <<min_value, gcd>>
          /\ body_in' = body
    /\ UNCHANGED <<vals, bytes, opened, got, mergerVars, gcdVars, itemVars, treeVars>>

\* open_from_bytes on the written file, or on what is left of it when its
\* first k bytes are missing
Open ==
    /\ opened.status = "none"
    /\ \E k \in 0..Len(WrittenFile), build \in {"debug", "release"} :
          /\ bytes' = SubSeq(WrittenFile, k + 1, Len(WrittenFile))
          /\ opened' = OpenFromBytes(bytes', build)
    /\ UNCHANGED <<vals, footer_in, body_in, got, mergerVars, gcdVars, itemVars, treeVars>>

\* get_u64(doc) for a doc id in range
GetU64 ==
    /\ opened.status = "Ok"
    /\ \E doc \in 0..(InnerNumDocs(opened.reader) - 1) :
          got' = <<"get_u64", doc, CodecGetU64(opened, doc)>>
    /\ UNCHANGED <<vals, footer_in, body_in, bytes, opened, mergerVars, gcdVars, itemVars, treeVars>>

\* min_value() and max_value() of a non-empty column
MinMax ==
    /\ opened.status = "Ok"
    /\ InnerNumDocs(opened.reader) >= 1
    /\ got' = <<"min_max", CodecMinValue(opened), CodecMaxValue(opened)>>
    /\ UNCHANGED <<vals, footer_in, body_in, bytes, opened, mergerVars, gcdVars, itemVars, treeVars>>

CodecNext == Encode \/ WriteRaw \/ Open \/ GetU64 \/ MinMax

CodecSpec == CodecInit /\ [][CodecNext]_vars

----------------------------------------------------------------------------
(* Codec properties                                                        *)

\* an encoded column was opened from the complete file
OpenedEncodedColumn ==
    /\ vals # <<>>
    /\ footer_in # <<>>
    /\ opened.status # "none"
    /\ bytes = WrittenFile

\* C5: a column encoded with footer (gcd, min_value), the inner reader storing
\* (v - min_value) / gcd per document, opens, and get_u64(doc) is the original
\* value of every doc id in range, being min_value + gcd * inner.get_u64(doc).
C5_CodecRoundTrip ==
    OpenedEncodedColumn =>
        /\ opened.status = "Ok"
        /\ InnerNumDocs(opened.reader) = Len(vals)
        /\ \A doc \in 0..(Len(vals) - 1) :
              /\ InnerGetU64(opened.reader, doc)
                   = (vals[doc + 1] - footer_in[1]) \div footer_in[2]
              /\ CodecGetU64(opened, doc) = vals[doc + 1]
              /\ CodecGetU64(opened, doc)
                   = footer_in[1] + footer_in[2] * InnerGetU64(opened.reader, doc)
        /\ (got # <<>> /\ got[1] = "get_u64") => got[3] = vals[got[2] + 1]

C5_Witness ==
    /\ OpenedEncodedColumn
    /\ footer_in[1] >= 1
    /\ footer_in[2] >= 2
    /\ got # <<>> /\ got[1] = "get_u64" /\ got[2] = 1 /\ got[3] > footer_in[1]

\* C6: open_from_bytes returns Err, without panicking and without producing a
\* reader, when the buffer is shorter than the 16-byte footer, and returns Err
\* when the inner reader fails to open the body.
C6_ShortBufferIsDecodeError ==
    opened.status # "none" =>
        /\ Len(bytes) < FooterLen => opened.status = "Err"
        /\ (Len(bytes) >= FooterLen
              /\ ~InnerOpenOk(SubSeq(bytes, 1, Len(bytes) - FooterLen)))
           => opened.status = "Err"

\* C9: for an encoded column, min_value() and max_value() are the minimum and
\* maximum of the original values, computed from the inner reader's minimum and
\* maximum stored quotient.
C9_CodecMinMax ==
    (OpenedEncodedColumn /\ got # <<>> /\ got[1] = "min_max") =>
        /\ got[2] = SeqMin(vals)
        /\ got[3] = SeqMax(vals)
        /\ got[2] = footer_in[1] + InnerMinValue(opened.reader) * footer_in[2]
        /\ got[3] = footer_in[1] + InnerMaxValue(opened.reader) * footer_in[2]
        /\ InnerMinValue(opened.reader)
             = SeqMin(Quotients(vals, footer_in[1], footer_in[2]))
        /\ InnerMaxValue(opened.reader)
             = SeqMax(Quotients(vals, footer_in[1], footer_in[2]))

C9_Witness ==
    /\ OpenedEncodedColumn
    /\ got # <<>> /\ got[1] = "min_max"
    /\ got[2] >= 1
    /\ got[3] > got[2]
    /\ footer_in[2] >= 2

\* C10: opening body bytes B followed by write_gcd_header(min_value, gcd) reads
\* gcd from the bytes at -16..-8 and min_value from the bytes at -8..0; the
\* reader has the gcd and min_value that were written and its inner reader is
\* opened over exactly B (open_from_bytes is Err when the inner codec rejects B).
C10_FooterWireOrder ==
    (footer_in # <<>> /\ opened.status # "none" /\ bytes = WrittenFile) =>
        /\ SubSeq(bytes, 1, Len(bytes) - FooterLen) = body_in
        /\ U64Deserialize(SubSeq(bytes, Len(bytes) - FooterLen + 1,
                                     Len(bytes) - U64Len)) = footer_in[2]
        /\ U64Deserialize(SubSeq(bytes, Len(bytes) - U64Len + 1, Len(bytes)))
             = footer_in[1]
        /\ IF InnerOpenOk(body_in)
           THEN /\ opened.status = "Ok"
                /\ opened.gcd = footer_in[2]
                /\ opened.min_value = footer_in[1]
                /\ opened.reader = InnerReader(body_in)
           ELSE opened.status = "Err"

C10_Witness ==
    /\ vals = <<>>
    /\ body_in = <<1, 2>>
    /\ footer_in = <<5, 3>>
    /\ bytes = WrittenFile
    /\ opened.status = "Ok"
    /\ opened.gcd = 3 /\ opened.min_value = 5

\* C16: on a column encoded from values of the integer type (gcd >= 1), the
\* product inner_value * gcd and the sum with min_value computed by get_u64 for
\* every doc id, and by min_value() and max_value(), stay within the type's
\* range, so nothing wraps around and no overflow check fails.
C16_DecodeNeverOverflows ==
    OpenedEncodedColumn =>
        /\ opened.status = "Ok"
        /\ opened.gcd >= 1
        /\ \A doc \in 0..(InnerNumDocs(opened.reader) - 1) :
              \A k \in 1..2 : CodecGetU64Steps(opened, doc)[k] \in 0..U64Max
        /\ \A k \in 1..2 : CodecMinValueSteps(opened)[k] \in 0..U64Max
        /\ \A k \in 1..2 : CodecMaxValueSteps(opened)[k] \in 0..U64Max

\* the largest value of the type decoded through a divisor above 1
C16_Witness ==
    /\ OpenedEncodedColumn
    /\ footer_in[1] >= 1
    /\ footer_in[2] >= 2
    /\ got # <<>> /\ got[1] = "get_u64" /\ got[3] = U64Max

(***************************************************************************)
(* query/query_document_tree.rs : QueryDocumentTree                        *)
(***************************************************************************)

\* a Term is a (field, text) pair; two terms share field 0
Terms == {<<0, 97>>, <<0, 98>>, <<1, 97>>}

TermField(term) == term[1]

\* the four variants of the enum
Term(term) == [kind |-> "Term", term |-> term, trees |-> <<>>]
AnyTerm == [kind |-> "AnyTerm", term |-> <<>>, trees |-> <<>>]
Conjunction(trees) == [kind |-> "Conjunction", term |-> <<>>, trees |-> trees]
Disjunction(trees) == [kind |-> "Disjunction", term |-> <<>>, trees |-> trees]

\* f32 scores are only ever compared; they are integers in units of 1.0
ZeroF32 == 0
OneF32 == 1
MinusOneF32 == 0 - 1

\* the scores a Term can get: 0_f32 on a provider error, else idf(..) >= 0
TermScores == 0..MaxScore

\* trees.iter().fold(init, |max_score, s| if max_score < s { s } else { max_score })
RECURSIVE FoldMax(_, _)
FoldMax(init, scores) ==
    IF scores = <<>> THEN init
    ELSE FoldMax(IF init < Head(scores) THEN Head(scores) ELSE init, Tail(scores))

\* trees.iter().fold(init, |min_score, s| if min_score > s { s } else { min_score })
RECURSIVE FoldMin(_, _)
FoldMin(init, scores) ==
    IF scores = <<>> THEN init
    ELSE FoldMin(IF init > Head(scores) THEN Head(scores) ELSE init, Tail(scores))

\* QueryDocumentTree::score
RECURSIVE Score(_, _)
Score(t, sp) ==
    CASE t.kind = "Conjunction" ->
            FoldMax(ZeroF32, [i \in 1..Len(t.trees) |-> Score(t.trees[i], sp)])
      [] t.kind = "Disjunction" ->
            FoldMin(OneF32, [i \in 1..Len(t.trees) |-> Score(t.trees[i], sp)])
      [] t.kind = "Term" -> sp[t.term]
      [] t.kind = "AnyTerm" -> MinusOneF32

\* a plausible slip: an element goes in front of the elements it ties with
SortInsertBeforeTies(sorted, x) ==
    LET k == Cardinality({i \in 1..Len(sorted) : sorted[i][1] > x[1]})
    IN  SubSeq(sorted, 1, k) \o <<x>> \o SubSeq(sorted, k + 1, Len(sorted))

\* one insertion of the stable sort under |a, b| b.total_cmp(a): x, later in
\* the input, goes after every element whose score is not below its own
SortInsert(sorted, x) ==
    LET k == Cardinality({i \in 1..Len(sorted) : sorted[i][1] >= x[1]})
    IN  SubSeq(sorted, 1, k) \o <<x>> \o SubSeq(sorted, k + 1, Len(sorted))

\* sorted_trees.sort_by(..): stable, by descending score
RECURSIVE SortByScoreDesc(_)
SortByScoreDesc(scored) ==
    IF scored = <<>> THEN <<>>
    ELSE SortInsert(SortByScoreDesc(SubSeq(scored, 1, Len(scored) - 1)),
                    scored[Len(scored)])

\* HashMap::<Field, HashSet<Term>>::new()
EmptyMap == [f \in {} |-> {}]

\* field_terms.entry(term.field()).or_insert(HashSet::new()).insert(term)
MapInsert(m, term) ==
    LET f == TermField(term)
    IN  [g \in DOMAIN m \cup {f} |->
            IF g = f THEN (IF f \in DOMAIN m THEN m[f] ELSE {}) \cup {term}
            ELSE m[g]]

\* QueryDocumentTree::to_field_terms; status "panic" is the todo!() of AnyTerm
RECURSIVE ToFieldTerms(_, _, _)
RECURSIVE ForEachTree(_, _, _)
ToFieldTerms(t, m, sp) ==
    CASE t.kind = "Conjunction" ->
            LET sorted_trees ==
                    SortByScoreDesc([i \in 1..Len(t.trees) |->
                                        <<Score(t.trees[i], sp), t.trees[i]>>])
            IN  IF sorted_trees = <<>> THEN [status |-> "Ok", map |-> m]
                ELSE ToFieldTerms(sorted_trees[1][2], m, sp)
      [] t.kind = "Disjunction" -> ForEachTree(t.trees, [status |-> "Ok", map |-> m], sp)
      [] t.kind = "Term" -> [status |-> "Ok", map |-> MapInsert(m, t.term)]
      [] t.kind = "AnyTerm" -> [status |-> "panic", map |-> m]

\* for tree in trees { tree.to_field_terms(..) }, unwinding at a panic
ForEachTree(trees, acc, sp) ==
    IF trees = <<>> \/ acc.status = "panic" THEN acc
    ELSE ForEachTree(Tail(trees), ToFieldTerms(Head(trees), acc.map, sp), sp)

\* trees of depth up to two: the children of the root are leaves or nodes
\* holding at most one leaf
Leaves == {Term(term) : term \in Terms} \cup {AnyTerm}
InnerTrees ==
    Leaves \cup {Conjunction(<<>>), Disjunction(<<>>)}
           \cup {Conjunction(<<l>>) : l \in Leaves}
           \cup {Disjunction(<<l>>) : l \in Leaves}

TreeInit ==
    /\ \E n \in 0..MaxChildren :
          \E trees \in [1..n -> InnerTrees] :
              tree \in {Conjunction(trees), Disjunction(trees)}
    /\ statistics_provider \in [Terms -> TermScores]
    /\ field_terms = [status |-> "none"]
    /\ MergerIdle
    /\ GcdIdle
    /\ CodecIdle
    /\ ItemIdle

\* to_document: a fresh map handed to to_field_terms
CallToFieldTerms ==
    /\ field_terms.status = "none"
    /\ field_terms' = ToFieldTerms(tree, EmptyMap, statistics_provider)
    /\ UNCHANGED <<tree, statistics_provider, mergerVars, gcdVars, codecVars, itemVars>>

TreeNext == CallToFieldTerms

TreeSpec == TreeInit /\ [][TreeNext]_vars

\* ---- what to_field_terms should collect, stated without the sort ----

\* the first child, in list order, among those of the highest score
BestChild(trees, sp) ==
    LET top == CHOOSE i \in 1..Len(trees) :
                   \A j \in 1..Len(trees) :
                       \/ Score(trees[j], sp) < Score(trees[i], sp)
                       \/ (Score(trees[j], sp) = Score(trees[i], sp) /\ i <= j)
    IN  trees[top]

RECURSIVE CollectedTerms(_, _)
CollectedTerms(t, sp) ==
    CASE t.kind = "Term" -> {t.term}
      [] t.kind = "AnyTerm" -> {}
      [] t.kind = "Disjunction" ->
            UNION {CollectedTerms(t.trees[i], sp) : i \in 1..Len(t.trees)}
      [] t.kind = "Conjunction" ->
            IF t.trees = <<>> THEN {} ELSE CollectedTerms(BestChild(t.trees, sp), sp)

\* the terms held by a map, over all fields
MapTerms(m) == UNION {m[f] : f \in DOMAIN m}

\* C14: when to_field_terms returns, the map holds, under each field, exactly
\* the terms of that field among: the term itself for a Term; the terms of
\* every child for a Disjunction; the terms of the first child of highest
\* score, and of no other child, for a Conjunction.  A field is a key of the
\* map only if a term was collected for it.
C14_ToFieldTermsCollects ==
    field_terms.status = "Ok" =>
        LET want == CollectedTerms(tree, statistics_provider)
        IN  /\ DOMAIN field_terms.map = {TermField(term) : term \in want}
            /\ \A f \in DOMAIN field_terms.map :
                  field_terms.map[f] = {term \in want : TermField(term) = f}
            /\ tree.kind = "Conjunction" /\ tree.trees # <<>> =>
                  MapTerms(field_terms.map) =
                      CollectedTerms(BestChild(tree.trees, statistics_provider),
                                     statistics_provider)

\* a Conjunction whose two best children tie and hold different terms, the
\* first of them a Disjunction
C14_Witness ==
    /\ field_terms.status = "Ok"
    /\ tree.kind = "Conjunction"
    /\ Len(tree.trees) = 2
    /\ tree.trees[1].kind = "Disjunction"
    /\ tree.trees[2].kind = "Term"
    /\ Score(tree.trees[1], statistics_provider) = Score(tree.trees[2], statistics_provider)
    /\ MapTerms(field_terms.map) # {}
    /\ ~(tree.trees[2].term \in MapTerms(field_terms.map))

====
